---- MODULE Spec2Model ----
(***************************************************************************)
(* Grid-state synchronisation layer of wasm-sudoku (www/src/index.ts):     *)
(* the cell widgets, the engine's shared cell buffer, the clue set and the *)
(* notification element, with one action per event handler.                *)
(*                                                                         *)
(* A text is a sequence of one-character strings.  The grid of the source  *)
(* has 81 cells; the model has NumCells of them.  The variable last is a   *)
(* history variable: which handler ran last, on which widget, the          *)
(* character it found before the cursor, and verify()'s answer.            *)
(***************************************************************************)
EXTENDS Integers, Sequences, FiniteSets, TLC

\* ------------------------------------------------------------- bounds
\* Number of cells of the grid (81 in the source, index.ts:9 and :107).
NumCells == 2
\* Longest text one edit event inserts (1 = a keystroke, more = a paste).
MaxPaste == 2
\* Most notification timeouts pending at once.
MaxTimers == 2

\* Characters the user types or pastes: the digit 0, the smallest and the
\* largest valid digit, and a non-digit.
Keys == {"0", "1", "9", "x"}
\* Cell values the engine leaves in the buffer: empty, or the digit 1.
EngineDigits == {0, 1}

VARIABLES
  cells,            \* index.ts:107  the Uint8Array view of the engine's buffer
  clueIndices,      \* index.ts:108  Set<number>
  inputs,           \* the .cell widgets in document order (index.ts:10-18)
  notificationDiv,  \* index.ts:110  [text, className]
  timers,           \* number of pending setTimeout callbacks (index.ts:92)
  last              \* the handler that ran last: [op, target, typed, result]

vars == <<cells, clueIndices, inputs, notificationDiv, timers, last>>

Index == 0 .. NumCells - 1

\* ------------------------------------------------- JavaScript primitives
\* A number value is a record: nan is set for NaN and num is its value otherwise.
NaN == [nan |-> TRUE, num |-> 0]

Num(n) == [nan |-> FALSE, num |-> n]

\* v < n and v > n: every comparison with NaN is false.
Less(v, n) == ~v.nan /\ v.num < n

Greater(v, n) == ~v.nan /\ v.num > n

DigitChars == <<"0", "1", "2", "3", "4", "5", "6", "7", "8", "9">>

\* The value of each decimal digit character.
DigitMap ==
  [c \in {DigitChars[d] : d \in 1 .. 10} |->
     (CHOOSE d \in 1 .. 10 : DigitChars[d] = c) - 1]

IsDigitChar(c) == c \in DOMAIN DigitMap

DigitOf(c) == DigitMap[c]

Min(a, b) == IF a < b THEN a ELSE b

Max(a, b) == IF a > b THEN a ELSE b

\* String.prototype.substr(start, length): a negative start counts from the
\* end of the string, clamped at 0.
Substr(str, start, length) ==
  LET size == Len(str)
      from == IF start < 0 THEN Max(size + start, 0) ELSE Min(start, size)
      upto == Min(from + Max(length, 0), size)
  IN  SubSeq(str, from + 1, upto)

\* The value of the longest prefix of decimal digits, most significant first.
RECURSIVE DigitsValue(_, _)
DigitsValue(str, acc) ==
  IF str = <<>> \/ ~IsDigitChar(Head(str))
  THEN acc
  ELSE DigitsValue(Tail(str), 10 * acc + DigitOf(Head(str)))

\* parseInt(str): NaN unless the text starts with a decimal digit.
ParseInt(str) ==
  IF str = <<>> \/ ~IsDigitChar(Head(str)) THEN NaN ELSE Num(DigitsValue(str, 0))

\* Number.isInteger(v)
IsInteger(v) == ~v.nan

\* The decimal digits of the natural number n.
RECURSIVE Decimal(_)
Decimal(n) ==
  IF n < 10 THEN <<DigitChars[n + 1]>>
  ELSE Append(Decimal(n \div 10), DigitChars[(n % 10) + 1])

\* String(v) for an integer v >= 0 or NaN.
String(v) == IF v.nan THEN <<"N", "a", "N">> ELSE Decimal(v.num)

\* Number(str): "" is 0, a text of decimal digits is its value, and any other
\* text is NaN.
Number(str) ==
  IF \A k \in 1 .. Len(str) : IsDigitChar(str[k])
  THEN Num(DigitsValue(str, 0)) ELSE NaN

\* A store into a Uint8Array: NaN is stored as 0, an integer modulo 2^8.
Uint8(v) == IF v.nan THEN 0 ELSE v.num % 256

\* ----------------------------------------------------------- the engine
\* The wasm engine is an external collaborator: each call may leave any
\* buffer of engine digits, and verify() may answer either way.
EngineBoards == [Index -> EngineDigits]

PuzzleNew == EngineBoards

PuzzleGenerate(board) == EngineBoards

PuzzleSolve(board) == EngineBoards

PuzzleVerify(board) == BOOLEAN

\* ------------------------------------------------------------ the widgets
\* Mutant: the loop counts down, so the widgets are appended in the reverse
\* order of their data-index.
NewCell_Reversed(i) ==
  [value |-> <<>>, readOnly |-> FALSE, clue |-> FALSE,
   index |-> Decimal(NumCells - 1 - i)]

\* document.createElement("input") as initializeGrid sets it up: empty,
\* editable, class "cell" only, data-index String(i).
NewCell(i) ==
  [value |-> <<>>, readOnly |-> FALSE, clue |-> FALSE, index |-> Decimal(i)]

\* Mutant: the text is String(cells[index]) even for an empty cell.
CellText_ShowsZero(cell) == String(Num(cell))

\* input.value = cells[index] ? String(cells[index]) : ""
CellText(cell) == IF cell # 0 THEN String(Num(cell)) ELSE <<>>

\* Mutant: the loop marks the clues but never sets readOnly.
RefreshInput_NeverReadOnly(input, i, board, clues) ==
  LET index == Number(input.index).num
  IN  [input EXCEPT !.value = CellText(board[index]),
                    !.clue = i \in clues,
                    !.readOnly = FALSE]

\* Mutant: classList.toggle("clue") and a toggled readOnly for a clue.
RefreshInput_Toggles(input, i, board, clues) ==
  LET index == Number(input.index).num
  IN  [input EXCEPT !.value = CellText(board[index]),
                    !.clue = IF i \in clues THEN ~input.clue ELSE FALSE,
                    !.readOnly = IF i \in clues THEN ~input.readOnly ELSE FALSE]

\* One iteration of refreshGrid's loop, for the widget at position i.
RefreshInput(input, i, board, clues) ==
  LET index == Number(input.index).num
  IN  [input EXCEPT !.value = CellText(board[index]),
                    !.clue = i \in clues,
                    !.readOnly = i \in clues]

refreshGrid(ins, board, clues) ==
  [i \in Index |-> RefreshInput(ins[i], i, board, clues)]

\* null, a value that is no index.
Null == 0 - 1

\* Mutant: filter((x) => x), which also drops index 0.
initializeClues_Truthy(board) ==
  LET mapped == [i \in Index |-> IF board[i] = 0 THEN Null ELSE i]
  IN  {mapped[i] : i \in {j \in Index : mapped[j] # Null /\ mapped[j] # 0}}

\* new Set([...cells].map(...).filter((x) => x != null))
initializeClues(board) ==
  LET mapped == [i \in Index |-> IF board[i] = 0 THEN Null ELSE i]
  IN  {mapped[i] : i \in {j \in Index : mapped[j] # Null}}

\* initializeGrid: the widgets are created and then refreshed.
initializeGrid(board, clues) ==
  refreshGrid([i \in Index |-> NewCell(i)], board, clues)

\* ------------------------------------------------------------- edit events
\* Texts of at most n characters that one edit event can insert: nothing (a
\* deletion), one key, a paste.
Texts(n) == UNION {[1 .. k -> Keys] : k \in 0 .. n}

\* The browser replaces the selection [s, e) of the text by t.
Splice(str, s, e, t) == SubSeq(str, 1, s) \o t \o SubSeq(str, e + 1, Len(str))

\* The input events the browser can fire on a widget that shows str, with at
\* most n characters inserted: the raw text and the cursor it leaves.
InputEvents(str, n) ==
  {[value |-> Splice(str, x[1], x[2], x[3]), selectionStart |-> x[1] + Len(x[3])] :
     x \in {y \in (0 .. Len(str)) \X (0 .. Len(str)) \X Texts(n) :
              y[1] <= y[2] /\ ~(y[3] = <<>> /\ y[1] = y[2])}}

\* Mutant: the range test is newValue < 0, so the digit 0 is accepted.
UpdateCellText_AcceptsZero(value, selectionStart) ==
  LET typed == Substr(value, selectionStart - 1, 1)
      newValue == ParseInt(typed)
  IN  IF ~IsInteger(newValue) \/ Less(newValue, 0) \/ Greater(newValue, 9)
      THEN LET oldValue == IF Len(value) = 1 THEN <<>>
                           ELSE Substr(value, Len(value) - selectionStart, 1)
           IN  [value |-> oldValue, accepted |-> FALSE, typed |-> typed]
      ELSE [value |-> String(newValue), accepted |-> TRUE, typed |-> typed]

\* The text updateCell leaves in a widget whose raw text is value with the
\* cursor at selectionStart, whether it goes on to write the buffer, and the
\* character it read before the cursor.
UpdateCellText(value, selectionStart) ==
  LET typed == Substr(value, selectionStart - 1, 1)
      newValue == ParseInt(typed)
  IN  IF ~IsInteger(newValue) \/ Less(newValue, 1) \/ Greater(newValue, 9)
      THEN LET oldValue == IF Len(value) = 1 THEN <<>>
                           ELSE Substr(value, Len(value) - selectionStart, 1)
           IN  [value |-> oldValue, accepted |-> FALSE, typed |-> typed]
      ELSE [value |-> String(newValue), accepted |-> TRUE, typed |-> typed]

\* Mutant: the rejecting branch does not return, so the store runs on the
\* restored text too.
UpdateCellStore_NoReturn(board, index, res) ==
  [board EXCEPT ![index] = Uint8(Number(res.value))]

\* The buffer after updateCell: written only when the edit was accepted.
UpdateCellStore(board, index, res) ==
  IF res.accepted
  THEN [board EXCEPT ![index] = Uint8(Number(res.value))]
  ELSE board

\* The texts a widget can show: nothing, or one character.
Displays ==
  {<<>>} \cup {<<c>> : c \in Keys \cup {DigitChars[d + 1] : d \in EngineDigits}}

\* For each text a widget can show, what updateCell makes of every input
\* event on it that inserts at most n characters.
Outcomes(n) ==
  [str \in Displays |->
     {UpdateCellText(ev.value, ev.selectionStart) : ev \in InputEvents(str, n)}]

\* Edits of any kind, pastes included.
PasteOutcomes == Outcomes(MaxPaste)

\* Edits at the keyboard: one character inserted, or a deletion.
KeyOutcomes == Outcomes(1)

\* Mutant: an accepted edit also adds the position to the clue set.
updateCell_MarksClue(i, res) ==
  LET index == Number(inputs[i].index).num
  IN  /\ inputs' = [inputs EXCEPT ![i].value = res.value]
      /\ cells' = UpdateCellStore(cells, index, res)
      /\ clueIndices' = IF res.accepted THEN clueIndices \cup {index} ELSE clueIndices
      /\ last' = [op |-> "updateCell", target |-> i,
                  typed |-> res.typed, result |-> FALSE]
      /\ UNCHANGED <<notificationDiv, timers>>

\* Mutant: the store goes to the position after the widget's data-index (a
\* store past the end of a Uint8Array is dropped).
updateCell_OffByOne(i, res) ==
  LET index == Number(inputs[i].index).num + 1
  IN  /\ inputs' = [inputs EXCEPT ![i].value = res.value]
      /\ cells' = IF index \in Index THEN UpdateCellStore(cells, index, res) ELSE cells
      /\ last' = [op |-> "updateCell", target |-> i,
                  typed |-> res.typed, result |-> FALSE]
      /\ UNCHANGED <<clueIndices, notificationDiv, timers>>

\* updateCell as the oninput handler of widget i, res being what it makes of
\* the raw text and the cursor the browser left.
updateCell(i, res) ==
  LET index == Number(inputs[i].index).num
  IN  /\ inputs' = [inputs EXCEPT ![i].value = res.value]
      /\ cells' = UpdateCellStore(cells, index, res)
      /\ last' = [op |-> "updateCell", target |-> i,
                  typed |-> res.typed, result |-> FALSE]
      /\ UNCHANGED <<clueIndices, notificationDiv, timers>>

\* The user edits widget i and the input event runs updateCell.  A read-only
\* widget takes no edit and fires no event.
EditWith(i, outcomes) ==
  IF inputs[i].readOnly
  THEN /\ last' = [op |-> "blocked", target |-> i, typed |-> <<>>, result |-> FALSE]
       /\ UNCHANGED <<cells, clueIndices, inputs, notificationDiv, timers>>
  ELSE \E res \in outcomes[inputs[i].value] : updateCell(i, res)

Edit(i) == EditWith(i, PasteOutcomes)

KeyEdit(i) == EditWith(i, KeyOutcomes)

\* ----------------------------------------------------------- the buttons
\* The record of a handler that is no edit; result is verify()'s answer.
Ran(op, result) == [op |-> op, target |-> 0, typed |-> <<>>, result |-> result]

\* Mutant: the grid is refreshed before the clue set is replaced.
generatePuzzle_RefreshesFirst ==
  \E board \in PuzzleGenerate(cells) :
     /\ cells' = board
     /\ clueIndices' = initializeClues(board)
     /\ inputs' = refreshGrid(inputs, board, clueIndices)
     /\ last' = Ran("generatePuzzle", FALSE)
     /\ UNCHANGED <<notificationDiv, timers>>

generatePuzzle ==
  \E board \in PuzzleGenerate(cells) :
     /\ cells' = board
     /\ clueIndices' = initializeClues(board)
     /\ inputs' = refreshGrid(inputs, board, initializeClues(board))
     /\ last' = Ran("generatePuzzle", FALSE)
     /\ UNCHANGED <<notificationDiv, timers>>

\* Mutant: cells.some(...) in place of cells.every(...).
VerifyMessage_Some(result, board) ==
  IF result
  THEN [text |-> IF \E i \in Index : board[i] # 0
                 THEN "Congratulations! You solved it."
                 ELSE "Looks good so far!",
        type |-> "success"]
  ELSE [text |-> "Oops! There is a mistake somewhere.", type |-> "error"]

\* The message and style verifyPuzzle picks for a verify() result.
VerifyMessage(result, board) ==
  IF result
  THEN [text |-> IF \A i \in Index : board[i] # 0
                 THEN "Congratulations! You solved it."
                 ELSE "Looks good so far!",
        type |-> "success"]
  ELSE [text |-> "Oops! There is a mistake somewhere.", type |-> "error"]

\* Mutant: verifyPuzzle first calls clearTimeout on the timeout pending from
\* the call before.
verifyPuzzle_CancelsTimer ==
  /\ timers < MaxTimers
  /\ \E result \in PuzzleVerify(cells) :
       LET m == VerifyMessage(result, cells)
       IN  /\ notificationDiv' = [text |-> m.text, className |-> {"visible", m.type}]
           /\ last' = Ran("verifyPuzzle", result)
  /\ timers' = 1
  /\ UNCHANGED <<cells, clueIndices, inputs>>

\* Mutant: verifyPuzzle also refreshes the grid.
verifyPuzzle_Refreshes ==
  /\ timers < MaxTimers
  /\ \E result \in PuzzleVerify(cells) :
       LET m == VerifyMessage(result, cells)
       IN  /\ notificationDiv' = [text |-> m.text, className |-> {"visible", m.type}]
           /\ last' = Ran("verifyPuzzle", result)
  /\ timers' = timers + 1
  /\ inputs' = refreshGrid(inputs, cells, clueIndices)
  /\ UNCHANGED <<cells, clueIndices>>

verifyPuzzle ==
  /\ timers < MaxTimers
  /\ \E result \in PuzzleVerify(cells) :
       LET m == VerifyMessage(result, cells)
       IN  /\ notificationDiv' = [text |-> m.text, className |-> {"visible", m.type}]
           /\ last' = Ran("verifyPuzzle", result)
  /\ timers' = timers + 1
  /\ UNCHANGED <<cells, clueIndices, inputs>>

\* Mutant: the callback removes "visible" only and leaves the style class.
Timeout_KeepsStyle ==
  /\ timers > 0
  /\ notificationDiv' =
        [notificationDiv EXCEPT !.className = notificationDiv.className \ {"visible"}]
  /\ timers' = timers - 1
  /\ last' = Ran("timeout", FALSE)
  /\ UNCHANGED <<cells, clueIndices, inputs>>

\* The callback of setTimeout(..., 2500).
Timeout ==
  /\ timers > 0
  /\ notificationDiv' = [notificationDiv EXCEPT !.className = {}]
  /\ timers' = timers - 1
  /\ last' = Ran("timeout", FALSE)
  /\ UNCHANGED <<cells, clueIndices, inputs>>

\* Mutant: solvePuzzle recomputes the clues, as generatePuzzle does.
solvePuzzle_RecomputesClues ==
  \E board \in PuzzleSolve(cells) :
     /\ cells' = board
     /\ clueIndices' = initializeClues(board)
     /\ inputs' = refreshGrid(inputs, board, initializeClues(board))
     /\ last' = Ran("solvePuzzle", FALSE)
     /\ UNCHANGED <<notificationDiv, timers>>

solvePuzzle ==
  \E board \in PuzzleSolve(cells) :
     /\ cells' = board
     /\ inputs' = refreshGrid(inputs, board, clueIndices)
     /\ last' = Ran("solvePuzzle", FALSE)
     /\ UNCHANGED <<clueIndices, notificationDiv, timers>>

\* ------------------------------------------------------- the specification
\* index.ts:106-115: the engine's initial buffer, the clues seeded from it,
\* the widgets created and refreshed, the notification element as loaded.
Init ==
  \E board \in PuzzleNew :
     /\ cells = board
     /\ clueIndices = initializeClues(board)
     /\ inputs = initializeGrid(board, initializeClues(board))
     /\ notificationDiv = [text |-> "", className |-> {}]
     /\ timers = 0
     /\ last = Ran("init", FALSE)

Next ==
  \/ \E i \in Index : Edit(i)
  \/ generatePuzzle
  \/ verifyPuzzle
  \/ Timeout
  \/ solvePuzzle

Spec == Init /\ [][Next]_vars

\* The grid alone: edits of any kind and the two buttons that rewrite it.
NextGrid ==
  \/ \E i \in Index : Edit(i)
  \/ generatePuzzle
  \/ solvePuzzle

SpecGrid == Init /\ [][NextGrid]_vars

\* Every handler, with edits at the keyboard.
NextKeys ==
  \/ \E i \in Index : KeyEdit(i)
  \/ generatePuzzle
  \/ verifyPuzzle
  \/ Timeout
  \/ solvePuzzle

SpecKeys == Init /\ [][NextKeys]_vars

\* Every handler and keyboard edits, with the event loop running each pending
\* setTimeout callback in the end: no handler blocks it for ever.
SpecKeysFair == SpecKeys /\ WF_vars(Timeout)

\* ------------------------------------------------------------ properties
\* The text that renders a cell value: nothing for 0, else its one digit.
Shown(v) == IF v = 0 THEN <<>> ELSE <<DigitChars[v + 1]>>

\* The one-character texts "1" .. "9".
ValidTexts == {Shown(d) : d \in 1 .. 9}

\* The digit a text of ValidTexts shows.
DigitShown(str) == CHOOSE d \in 1 .. 9 : Shown(d) = str

EditedLast(i) == last.op = "updateCell" /\ last.target = i

\* C1: after each run of updateCell, whatever the edit (insertion,
\* replacement of the selection, deletion, paste), every widget's text is
\* empty or exactly one character "1" .. "9".
C1_SingleCharacter ==
  \A i \in Index : inputs[i].value \in {<<>>} \cup ValidTexts

\* C2: when updateCell accepts an edit of widget i (the character before the
\* cursor is a digit d in 1..9), afterwards cells[i] = d and widget i shows
\* exactly d; when it rejects the edit, no cell of the buffer changes.
C2_WriteThrough ==
  [][\A i \in Index :
       (last'.op = "updateCell" /\ last'.target = i) =>
          IF last'.typed \in ValidTexts
          THEN /\ cells'[i] = DigitShown(last'.typed)
               /\ inputs'[i].value = last'.typed
          ELSE cells' = cells]_vars

\* An accepted edit has just written the typed digit 9 into an editable cell.
C2_Witness ==
  \E i \in Index :
     /\ EditedLast(i)
     /\ last.typed = <<"9">>
     /\ cells[i] = 9
     /\ inputs[i].value = <<"9">>

\* C3: a position in the clue set is read-only in every state, stays in the
\* clue set and read-only across every handler but generatePuzzle, and an
\* attempt to edit its widget leaves the buffer as it was.
C3_ClueImmutable ==
  [][/\ \A i \in clueIndices' : inputs'[i].readOnly
     /\ last'.op # "generatePuzzle" =>
           \A i \in clueIndices : i \in clueIndices' /\ inputs'[i].readOnly
     /\ \A i \in clueIndices :
           (last'.op \in {"updateCell", "blocked"} /\ last'.target = i) =>
              cells' = cells]_vars

\* The user has just tried to edit a clue widget, which still holds its clue.
C3_Witness ==
  /\ last.op = "blocked"
  /\ last.target \in clueIndices
  /\ inputs[last.target].readOnly
  /\ cells[last.target] # 0
  /\ \E j \in Index : j \notin clueIndices /\ cells[j] = 9

\* C4: right after initialization, generatePuzzle and solvePuzzle, every
\* widget shows "" for an empty cell and the cell's digit otherwise, and is
\* read-only exactly when its position is in the clue set.
C4_RefreshedRelation ==
  last.op \in {"init", "generatePuzzle", "solvePuzzle"} =>
     \A i \in Index :
        /\ inputs[i].value = Shown(cells[i])
        /\ inputs[i].readOnly = (i \in clueIndices)

\* A refresh has just run over a grid with a clue and with a filled cell
\* that is no clue.
C4_Witness ==
  /\ last.op = "solvePuzzle"
  /\ \E i \in Index : i \in clueIndices /\ inputs[i].value = Shown(cells[i])
  /\ \E j \in Index : j \notin clueIndices /\ cells[j] # 0 /\ ~inputs[j].readOnly

\* C5: right after generatePuzzle the clue set is the set of non-empty cells
\* of the new buffer; a widget over a non-empty cell is read-only and shows
\* its digit, every other widget is empty and editable.
C5_GenerateClues ==
  last.op = "generatePuzzle" =>
     /\ clueIndices = {i \in Index : cells[i] # 0}
     /\ \A i \in Index :
           IF cells[i] # 0
           THEN inputs[i].readOnly /\ inputs[i].value = Shown(cells[i])
           ELSE ~inputs[i].readOnly /\ inputs[i].value = <<>>

\* generate() has left a digit in cell 0 only: widget 0 is the one clue.
C5_Witness ==
  /\ last.op = "generatePuzzle"
  /\ cells[0] # 0
  /\ \A i \in Index \ {0} : cells[i] = 0 /\ ~inputs[i].readOnly
  /\ clueIndices = {0}
  /\ inputs[0].readOnly

\* C6: solvePuzzle leaves the clue set as it was, every widget shows the
\* buffer as solve() left it, and every widget that was editable still is.
C6_SolveKeepsClues ==
  [][last'.op = "solvePuzzle" =>
       /\ clueIndices' = clueIndices
       /\ \A i \in Index :
             /\ inputs'[i].value = Shown(cells'[i])
             /\ ~inputs[i].readOnly => ~inputs'[i].readOnly]_vars

\* solve() has filled every cell, and a filled cell is still no clue.
C6_Witness ==
  /\ last.op = "solvePuzzle"
  /\ \A i \in Index : cells[i] # 0 /\ inputs[i].value # <<>>
  /\ \E i \in Index : i \notin clueIndices /\ ~inputs[i].readOnly

ShowsNotification(text, type) ==
  /\ notificationDiv.text = text
  /\ notificationDiv.className = {"visible", type}

\* C7: right after verifyPuzzle the notification is the error-style mistake
\* message iff verify() was false, the success-style solved message iff it
\* was true and no cell is empty, the success-style good-so-far message iff
\* it was true and a cell is empty; exactly one of the three is shown.
C7_VerifyOutcome ==
  last.op = "verifyPuzzle" =>
     LET full == \A i \in Index : cells[i] # 0
         mistake == ShowsNotification("Oops! There is a mistake somewhere.", "error")
         solved == ShowsNotification("Congratulations! You solved it.", "success")
         good == ShowsNotification("Looks good so far!", "success")
     IN  /\ mistake <=> ~last.result
         /\ solved <=> (last.result /\ full)
         /\ good <=> (last.result /\ ~full)
         /\ Cardinality({b \in {<<1, mistake>>, <<2, solved>>, <<3, good>>} : b[2]}) = 1

\* verify() has just answered true on a full buffer the user completed.
C7_Witness ==
  /\ last.op = "verifyPuzzle"
  /\ last.result
  /\ \A i \in Index : cells[i] # 0
  /\ \E i \in Index : cells[i] = 9
  /\ ShowsNotification("Congratulations! You solved it.", "success")

\* C8: verifyPuzzle and the timeout callback leave the buffer, the clue set
\* and every widget as they were.
C8_VerifyFrame ==
  [][last'.op \in {"verifyPuzzle", "timeout"} =>
       UNCHANGED <<cells, clueIndices, inputs>>]_vars

\* The timeout of a verifyPuzzle has fired over a grid that holds a clue, a
\* typed digit and a widget whose text is not its cell's.
C8_Witness ==
  /\ last.op = "timeout"
  /\ notificationDiv.className = {}
  /\ notificationDiv.text # ""
  /\ clueIndices # {}
  /\ \E i \in Index : cells[i] = 9

\* C9: an invalid character (a non-digit, or 0) typed into a widget that
\* shows the digit d is rejected: the widget still shows d and cells[index]
\* is still d; typed into an empty widget, it leaves the widget empty.
C9_RejectRestores ==
  [][\A i \in Index :
       (last'.op = "updateCell" /\ last'.target = i) =>
          LET shown == inputs[i].value
          IN  \A s \in 0 .. Len(shown) :
              \A e \in s .. Len(shown) :
              \A c \in Keys \ {DigitChars[d + 1] : d \in 1 .. 9} :
                 updateCell(i, UpdateCellText(Splice(shown, s, e, <<c>>), s + 1)) =>
                    /\ shown = <<>> => inputs'[i].value = <<>>
                    /\ shown \in ValidTexts =>
                          /\ inputs'[i].value = shown
                          /\ cells'[i] = DigitShown(shown)]_vars

\* C10: a second refreshGrid, run on the widgets a first one left and on the
\* same buffer and clue set, leaves every widget as the first one did.
C10_RefreshIdempotent ==
  LET once == refreshGrid(inputs, cells, clueIndices)
  IN  refreshGrid(once, cells, clueIndices) = once

\* A widget's text is not what a refresh would show, so a refresh acts.
C10_Witness ==
  /\ refreshGrid(inputs, cells, clueIndices) # inputs
  /\ clueIndices # {}

\* C11: in every state after initialization, whatever handlers and timeouts
\* have run, widget i is read-only and clue-marked exactly when i is in the
\* clue set, so the clue widgets and the editable widgets partition the grid.
C11_CluePartition ==
  LET clueWidgets == {i \in Index : inputs[i].readOnly /\ inputs[i].clue}
      editable == {i \in Index : ~inputs[i].readOnly /\ ~inputs[i].clue}
  IN  /\ clueWidgets = clueIndices
      /\ editable = Index \ clueIndices
      /\ clueWidgets \cap editable = {}
      /\ clueWidgets \cup editable = Index

\* generatePuzzle has just left a clue in cell 1 only, on a grid whose widget
\* 0 is editable.
C11_Witness ==
  /\ last.op = "generatePuzzle"
  /\ clueIndices = {1}
  /\ inputs[1].readOnly /\ inputs[1].clue
  /\ ~inputs[0].readOnly /\ ~inputs[0].clue

\* C12: with an engine that leaves values 0 .. 9 only, the buffer has one
\* cell per position and every cell is in 0 .. 9 in every state; a cell that
\* updateCell writes holds a value in 1 .. 9 afterwards.
C12_BoardRange ==
  [][/\ DOMAIN cells = Index /\ DOMAIN cells' = Index
     /\ \A i \in Index : cells[i] \in 0 .. 9 /\ cells'[i] \in 0 .. 9
     /\ last'.op = "updateCell" =>
           \A i \in Index : cells'[i] # cells[i] => cells'[i] \in 1 .. 9]_vars

\* updateCell has just read the digit 1 before the cursor and cell i, which
\* is no clue, holds 1, beside a cell that holds a typed 9.
C12_Witness ==
  \E i \in Index :
     /\ EditedLast(i)
     /\ last.typed = <<"1">>
     /\ cells[i] = 1
     /\ i \notin clueIndices
     /\ \E j \in Index \ {i} : cells[j] = 9

\* C13: in every state reached by edits (insertions, replacements of the
\* selection, deletions), generatePuzzle, verifyPuzzle and solvePuzzle, every
\* widget shows "" when its cell is 0 and the cell's digit otherwise.
C13_DisplayMirrorsBoard ==
  \A i \in Index : inputs[i].value = Shown(cells[Number(inputs[i].index).num])

\* C14: the clue set is seeded at startup from the engine's initial buffer,
\* before the widgets are first refreshed, and is replaced by each
\* generatePuzzle from the new buffer; updateCell (accepting or rejecting),
\* verifyPuzzle, solvePuzzle and the timeout leave it as it was.
C14_ClueLifecycle ==
  [][/\ last.op = "init" =>
           /\ clueIndices = {i \in Index : cells[i] # 0}
           /\ \A i \in Index : inputs[i].readOnly = (i \in clueIndices)
     /\ last'.op = "generatePuzzle" =>
           clueIndices' = {i \in Index : cells'[i] # 0}
     /\ last'.op # "generatePuzzle" => clueIndices' = clueIndices]_vars

\* Cell 1 is the one clue; since then the user has typed 9 into cell 0, and
\* verifyPuzzle and its timeout have run.
C14_Witness ==
  /\ last.op = "timeout"
  /\ clueIndices = {1}
  /\ cells[0] = 9
  /\ cells[1] # 0
  /\ timers = 0

\* C15: an edit of widget i changes at most cells[i] and the text of widget
\* i: every other cell and every other widget's text are as before, no
\* widget's read-only flag, clue marker or data-index changes, and the other
\* widgets are not refreshed (a text that differs from its cell stays so).
C15_KeystrokeLocality ==
  [][\A i \in Index :
       (last'.op = "updateCell" /\ last'.target = i) =>
          /\ \A j \in Index \ {i} :
                /\ cells'[j] = cells[j]
                /\ inputs'[j].value = inputs[j].value
          /\ \A j \in Index :
                /\ inputs'[j].readOnly = inputs[j].readOnly
                /\ inputs'[j].clue = inputs[j].clue
                /\ inputs'[j].index = inputs[j].index]_vars

\* updateCell has just stored 9 through widget i while another widget shows
\* a text that is not its cell's: a refresh would have changed that text.
C15_Witness ==
  \E i \in Index :
     /\ EditedLast(i)
     /\ cells[i] = 9
     /\ last.typed = <<"9">>
     /\ \E j \in Index \ {i} : inputs[j].value # Shown(cells[j])

Visible == "visible" \in notificationDiv.className

Hidden == notificationDiv.className = {}

\* C16: every verifyPuzzle shows the notification with the style it chose
\* and schedules one timeout; every timeout that fires hides the
\* notification, so a visible notification always has a timeout pending and
\* is hidden in the end, at the latest when the last pending timeout (the one
\* of the verifyPuzzle that showed it) has fired; once hidden it stays hidden
\* until the next verifyPuzzle.
C16_AutoDismiss ==
  /\ [][/\ last'.op = "verifyPuzzle" =>
              /\ Visible'
              /\ notificationDiv'.className \in {{"visible", "success"}, {"visible", "error"}}
              /\ timers' = timers + 1
        /\ last'.op = "timeout" => Hidden' /\ timers' = timers - 1
        /\ last'.op \notin {"verifyPuzzle", "timeout"} => timers' = timers
        /\ Visible => timers > 0
        /\ Visible' => timers' > 0
        /\ (Hidden /\ last'.op # "verifyPuzzle") => Hidden']_vars
  /\ Visible ~> Hidden

\* The timeout of the one verifyPuzzle that ran has fired and hidden its
\* notification, whose text is still in place.
C16_Witness ==
  /\ last.op = "timeout"
  /\ Hidden
  /\ timers = 0
  /\ notificationDiv.text = "Looks good so far!"

\* C17: verifyPuzzle cancels no pending timeout, each call adds one to those
\* pending; a timeout that fires while a later verifyPuzzle's timeout is
\* still pending hides the notification that later call is showing.
C17_StaleTimer ==
  [][/\ last'.op = "verifyPuzzle" => timers' = timers + 1
     /\ (last'.op = "timeout" /\ timers' > 0 /\ Visible) =>
           /\ Hidden'
           /\ notificationDiv'.text = notificationDiv.text]_vars

\* verifyPuzzle ran while a timeout was pending and showed a notification;
\* the earlier timeout has fired and hidden it, the later one is still
\* pending.  (All MaxTimers timeouts were pending before this one fired, so
\* the last of them was scheduled by a verifyPuzzle after which none fired.)
C17_Witness ==
  /\ last.op = "timeout"
  /\ Hidden
  /\ timers > 0
  /\ timers = MaxTimers - 1
  /\ notificationDiv.text = "Oops! There is a mistake somewhere."

\* C18: in every state after initialization there is one widget per grid
\* position, and the widget at position i carries data-index i, so the
\* position refreshGrid tests against the clue set and the index it reads
\* the buffer at are the same.
C18_WidgetAlignment ==
  /\ DOMAIN inputs = Index
  /\ Cardinality(DOMAIN inputs) = NumCells
  /\ \A i \in Index :
        /\ inputs[i].index = String(Num(i))
        /\ Number(inputs[i].index) = Num(i)

\* solvePuzzle has just refreshed a grid whose one clue is the last widget:
\* the widget that carries the last data-index is the read-only one and
\* shows the last cell, which differs from the first.
C18_Witness ==
  /\ last.op = "solvePuzzle"
  /\ clueIndices = {NumCells - 1}
  /\ inputs[NumCells - 1].index = Decimal(NumCells - 1)
  /\ inputs[NumCells - 1].readOnly
  /\ cells[NumCells - 1] = 1
  /\ inputs[NumCells - 1].value = <<"1">>
  /\ cells[0] = 0
  /\ inputs[0].value = <<>>

====
